---- MODULE Spec2Model ----
(***************************************************************************)
(* A model of src/src/lib.rs: DB<T> owns a Vec<T>; DBView<'a,T> holds      *)
(* shared references into it and DBViewMut<'a,T> exclusive ones.           *)
(*                                                                         *)
(* A reference &'a T is modelled by the position of the record in the      *)
(* Vec of its origin DB.  The lifetime 'a is modelled by the loans the     *)
(* borrow checker keeps on each DB: every live value whose type carries    *)
(* 'a holds one loan on the DB that 'a borrows from.  A call is enabled    *)
(* exactly when the borrow checker accepts it.                             *)
(***************************************************************************)
EXTENDS Naturals, Sequences, FiniteSets, Bags

\* ---- bounds of the model ----
NumStores == 2
MaxLen == 2
MaxVal == 2
NumViews == 4
NumMuts == 3
MaxRecs == 3

Stores == 1..NumStores
Values == 1..MaxVal
MutIds == 1..NumMuts

VARIABLES
  data,   \* data[s]: the Vec<T> of DB s
  loans,  \* loans[s]: the borrows of DB s that live values keep alive
  views,  \* the bag of the live DBViews
  muts,   \* muts[m]: the DBViewMut that handle m holds, if any
  last    \* what the caller of the last call saw

vars == <<data, loans, views, muts, last>>

\* ---- helpers ----
SeqsUpTo(S, n) == UNION {[1..k -> S] : k \in 0..n}

Min(S) == CHOOSE x \in S : \A y \in S : x <= y

\* F: Fn(&T) -> bool.  A call of the closure returns true or false, or panics.
Preds == [Values -> {"true", "false", "panic"}]

TotalPreds == [Values -> {"true", "false"}]

\* |_| true
AlwaysTrue == [x \in Values |-> "true"]

\* self.data.iter() / iter_mut(): one reference per record, in Vec order.
Iter(recs) == [i \in 1..Len(recs) |-> i]

\* Collect, collecting back to front.
RECURSIVE CollectReversed(_, _, _)
CollectReversed(recs, entries, p) ==
  IF entries = <<>>
  THEN [ok |-> TRUE, out |-> <<>>]
  ELSE LET r == p[recs[Head(entries)]] IN
       IF r = "panic"
       THEN [ok |-> FALSE, out |-> <<>>]
       ELSE LET t == CollectReversed(recs, Tail(entries), p) IN
            IF ~t.ok
            THEN t
            ELSE [ok |-> TRUE,
                  out |-> IF r = "true" THEN t.out \o <<Head(entries)>> ELSE t.out]

\* Collect, taking a panic of the predicate for a rejection.
RECURSIVE CollectCatchesPanic(_, _, _)
CollectCatchesPanic(recs, entries, p) ==
  IF entries = <<>>
  THEN [ok |-> TRUE, out |-> <<>>]
  ELSE LET r == p[recs[Head(entries)]]
           t == CollectCatchesPanic(recs, Tail(entries), p)
       IN [ok |-> TRUE,
           out |-> IF r = "true" THEN <<Head(entries)>> \o t.out ELSE t.out]

\* iter.filter(|t| predicate(t)).collect(): one pass in order; the closure is
\* called once per element; a panic unwinds and nothing is collected.
RECURSIVE Collect(_, _, _)
Collect(recs, entries, p) ==
  IF entries = <<>>
  THEN [ok |-> TRUE, out |-> <<>>]
  ELSE LET r == p[recs[Head(entries)]] IN
       IF r = "panic"
       THEN [ok |-> FALSE, out |-> <<>>]
       ELSE LET t == Collect(recs, Tail(entries), p) IN
            IF ~t.ok
            THEN t
            ELSE [ok |-> TRUE,
                  out |-> IF r = "true" THEN <<Head(entries)>> \o t.out ELSE t.out]

\* DBView { entries }: the origin is the DB that 'a borrows from.
DBView(s, entries) == [origin |-> s, entries |-> entries]

\* DBViewMut { entries }
DBViewMut(s, entries) == [state |-> "live", origin |-> s, entries |-> entries]

\* A handle that holds no DBViewMut: never bound, moved into
\* select_where_mut(self), or dropped.  The compiler rejects every use of it.
Gone == [state |-> "gone", origin |-> 0, entries |-> <<>>]

\* What the caller of the last call saw: the call, its receiver, whether it
\* returned (ok) or panicked, and what it returned: a length, a DBView, a
\* pair of DBViews, or the handle the new DBViewMut is bound to (0: nothing).
\* rel tells how the receiver relates to the call before.
Outcome(op, recv, ok, out) ==
  [op |-> op, recv |-> recv, ok |-> ok, out |-> out, rel |-> ""]

WithRel(o, rel) == [o EXCEPT !.rel = rel]

\* For a call on a DBView right after a DBView.select_where that returned:
\* the receiver is the view that call returned ("result"), or the view that
\* call narrowed ("source").
Rel(v) ==
  IF last.op = "DBView.select_where" /\ last.ok
  THEN (IF v = last.out THEN "result" ELSE IF v = last.recv THEN "source" ELSE "")
  ELSE ""

Narrowings == {"DBView.select_where", "filter_one", "filter_two"}

\* The views that the last call returned as narrowed from v.
NarrowedFrom(v) ==
  IF last.op \in Narrowings /\ last.ok
  THEN (IF last.op = "filter_two"
        THEN {last.out[k] : k \in {j \in {1, 2} : last.recv[j] = v}}
        ELSE (IF last.recv = v THEN {last.out} ELSE {}))
  ELSE {}

\* The live DBView values; a DBView has no identity beyond its contents.
Live == BagToSet(views)

One(v) == SetToBag({v})

\* ---- the borrow checker's rules ----
\* &self on a DB: accepted unless the DB is mutably borrowed.
CanBorrowShared(s) == ~loans[s].excl

\* CanBorrowMut, were the receiver of select_where_mut a shared borrow.
CanBorrowMutAsShared(s) == ~loans[s].excl

\* &mut self on a DB: accepted only when nothing borrows the DB.
CanBorrowMut(s) == ~loans[s].excl /\ loans[s].shared = 0

\* A value of type DBView<'a,T> keeps the shared borrow 'a of its DB alive.
AddShared(s, n) == [loans EXCEPT ![s].shared = @ + n]

EndShared(s) == [loans EXCEPT ![s].shared = @ - 1]

\* SetExcl, were a DBViewMut not to carry the borrow of its DB.
SetExclUntracked(s, b) == loans

\* A value of type DBViewMut<'a,T> keeps the mutable borrow 'a alive.
SetExcl(s, b) == [loans EXCEPT ![s].excl = b]

Room(n) == BagCardinality(views) + n <= NumViews

FreeMuts(m) == {n \in MutIds : muts[n].state # "live" /\ n # m}

RECURSIVE SumLen(_, _)
SumLen(d, S) ==
  IF S = {} THEN 0 ELSE LET s == Min(S) IN Len(d[s]) + SumLen(d, S \ {s})

TotalRecs(d) == SumLen(d, Stores)

\* ---- state after construction ----
\* DB::new(data): any Vec, the empty one included.
Init ==
  /\ data \in {d \in [Stores -> SeqsUpTo(Values, MaxLen)] : TotalRecs(d) <= MaxRecs}
  /\ loans = [s \in Stores |-> [shared |-> 0, excl |-> FALSE]]
  /\ views = EmptyBag
  /\ muts = [m \in MutIds |-> Gone]
  /\ last = Outcome("DB.new", 0, TRUE, 0)

\* ---- DB<T> ----
SelectWhereOn(s, p, op) ==
  /\ CanBorrowShared(s)
  /\ Room(1)
  /\ LET r == Collect(data[s], Iter(data[s]), p)
     IN IF r.ok
        THEN /\ views' = views (+) One(DBView(s, r.out))
             /\ loans' = AddShared(s, 1)
             /\ last' = Outcome(op, s, TRUE, DBView(s, r.out))
        ELSE /\ UNCHANGED <<views, loans>>
             /\ last' = Outcome(op, s, FALSE, 0)
  /\ UNCHANGED <<data, muts>>

DB_select_where(s, p) == SelectWhereOn(s, p, "DB.select_where")

SelectWhereMutOn(s, p, op) ==
  /\ CanBorrowMut(s)
  /\ FreeMuts(0) # {}
  /\ LET r == Collect(data[s], Iter(data[s]), p)
         m == Min(FreeMuts(0))
     IN IF r.ok
        THEN /\ muts' = [muts EXCEPT ![m] = DBViewMut(s, r.out)]
             /\ loans' = SetExcl(s, TRUE)
             /\ last' = Outcome(op, s, TRUE, m)
        ELSE /\ UNCHANGED <<muts, loans>>
             /\ last' = Outcome(op, s, FALSE, 0)
  /\ UNCHANGED <<data, views>>

DB_select_where_mut(s, p) == SelectWhereMutOn(s, p, "DB.select_where_mut")

DB_as_view(s) == SelectWhereOn(s, AlwaysTrue, "DB.as_view")

DB_as_view_mut(s) == SelectWhereMutOn(s, AlwaysTrue, "DB.as_view_mut")

DB_len(s) ==
  /\ CanBorrowShared(s)
  /\ last' = Outcome("DB.len", s, TRUE, Len(data[s]))
  /\ UNCHANGED <<data, loans, views, muts>>

\* Narrow, filtering the records of the DB instead of the view's entries.
NarrowWholeDB(v, p) == Collect(data[v.origin], Iter(data[v.origin]), p)

\* ---- DBView<'a,T> ----
\* self.entries.iter().map(|t| *t).filter(..).collect(): the result carries
\* 'a, the borrow of the DB, not the borrow of self.
Narrow(v, p) == Collect(data[v.origin], v.entries, p)

\* SelectWhereOnView, narrowing the receiver in place.
SelectWhereOnViewInPlace(v, p, op, rel) ==
  /\ v \in Live
  /\ Room(1)
  /\ LET r == Collect(data[v.origin], v.entries, p)
     IN IF r.ok
        THEN /\ views' = (views (-) One(v)) (+) One(DBView(v.origin, r.out))
             /\ UNCHANGED loans
             /\ last' = WithRel(Outcome(op, v, TRUE, DBView(v.origin, r.out)), rel)
        ELSE /\ UNCHANGED <<views, loans>>
             /\ last' = WithRel(Outcome(op, v, FALSE, 0), rel)
  /\ UNCHANGED <<data, muts>>

\* SelectWhereOnView, were the result to borrow the receiver and not the DB:
\* it takes no borrow of the DB of its own.
SelectWhereOnViewBorrowsView(v, p, op, rel) ==
  /\ v \in Live
  /\ Room(1)
  /\ LET r == Collect(data[v.origin], v.entries, p)
     IN IF r.ok
        THEN /\ views' = views (+) One(DBView(v.origin, r.out))
             /\ UNCHANGED loans
             /\ last' = WithRel(Outcome(op, v, TRUE, DBView(v.origin, r.out)), rel)
        ELSE /\ UNCHANGED <<views, loans>>
             /\ last' = WithRel(Outcome(op, v, FALSE, 0), rel)
  /\ UNCHANGED <<data, muts>>

SelectWhereOnView(v, p, op, rel) ==
  /\ v \in Live
  /\ Room(1)
  /\ LET r == Narrow(v, p)
     IN IF r.ok
        THEN /\ views' = views (+) One(DBView(v.origin, r.out))
             /\ loans' = AddShared(v.origin, 1)
             /\ last' = WithRel(Outcome(op, v, TRUE, DBView(v.origin, r.out)), rel)
        ELSE /\ UNCHANGED <<views, loans>>
             /\ last' = WithRel(Outcome(op, v, FALSE, 0), rel)
  /\ UNCHANGED <<data, muts>>

DBView_select_where(v, p) == SelectWhereOnView(v, p, "DBView.select_where", Rel(v))

DBView_len(v) ==
  /\ v \in Live
  /\ last' = WithRel(Outcome("DBView.len", v, TRUE, Len(v.entries)), Rel(v))
  /\ UNCHANGED <<data, loans, views, muts>>

\* A DBView goes out of scope: its borrow of the DB ends.
drop_DBView(v) ==
  /\ v \in Live
  /\ views' = views (-) One(v)
  /\ loans' = EndShared(v.origin)
  /\ last' = WithRel(Outcome("drop DBView", v, TRUE, 0), Rel(v))
  /\ UNCHANGED <<data, muts>>

\* ---- free functions ----
filter_one(v, p) == SelectWhereOnView(v, p, "filter_one", "")

\* filter_two, filtering view_a for both components.
filter_twoOfViewA(a, b, p) ==
  /\ a \in Live
  /\ b \in Live
  /\ Room(2)
  /\ LET ra == Narrow(a, p)
     IN IF ra.ok
        THEN /\ views' = views (+) One(DBView(a.origin, ra.out))
                               (+) One(DBView(a.origin, ra.out))
             /\ loans' = AddShared(a.origin, 2)
             /\ last' = Outcome("filter_two", <<a, b>>, TRUE,
                                <<DBView(a.origin, ra.out), DBView(a.origin, ra.out)>>)
        ELSE /\ UNCHANGED <<views, loans>>
             /\ last' = Outcome("filter_two", <<a, b>>, FALSE, 0)
  /\ UNCHANGED <<data, muts>>

\* (view_a.select_where(&predicate), view_b.select_where(&predicate)): the
\* first component is built first; a panic in the second drops it.
filter_two(a, b, p) ==
  /\ a \in Live
  /\ b \in Live
  /\ Room(2)
  /\ LET ra == Narrow(a, p)
         rb == Narrow(b, p)
     IN IF ra.ok /\ rb.ok
        THEN /\ views' = views (+) One(DBView(a.origin, ra.out))
                               (+) One(DBView(b.origin, rb.out))
             /\ loans' = [s \in Stores |->
                            [loans[s] EXCEPT !.shared =
                               @ + (IF a.origin = s THEN 1 ELSE 0)
                                 + (IF b.origin = s THEN 1 ELSE 0)]]
             /\ last' = Outcome("filter_two", <<a, b>>, TRUE,
                                <<DBView(a.origin, ra.out), DBView(b.origin, rb.out)>>)
        ELSE /\ UNCHANGED <<views, loans>>
             /\ last' = Outcome("filter_two", <<a, b>>, FALSE, 0)
  /\ UNCHANGED <<data, muts>>

\* DBViewMut_select_where_mut, were the receiver borrowed and not moved: it
\* stays live, with its references.
DBViewMut_select_where_mutByRef(m, p) ==
  /\ muts[m].state = "live"
  /\ FreeMuts(m) # {}
  /\ LET r == Collect(data[muts[m].origin], muts[m].entries, p)
         n == Min(FreeMuts(m))
     IN IF r.ok
        THEN /\ muts' = [muts EXCEPT ![n] = DBViewMut(muts[m].origin, r.out)]
             /\ last' = Outcome("DBViewMut.select_where_mut", m, TRUE, n)
        ELSE /\ UNCHANGED muts
             /\ last' = Outcome("DBViewMut.select_where_mut", m, FALSE, 0)
  /\ UNCHANGED <<data, views, loans>>

\* ---- DBViewMut<'a,T> ----
\* select_where_mut(self, ..): self is moved in; self.entries.into_iter()
\* hands each &'a mut T, once, to the result.  On a panic the references
\* are dropped with the unwinding call.
DBViewMut_select_where_mut(m, p) ==
  /\ muts[m].state = "live"
  /\ FreeMuts(m) # {}
  /\ LET r == Collect(data[muts[m].origin], muts[m].entries, p)
         n == Min(FreeMuts(m))
     IN IF r.ok
        THEN /\ muts' = [muts EXCEPT ![m] = Gone,
                                     ![n] = DBViewMut(muts[m].origin, r.out)]
             /\ UNCHANGED loans
             /\ last' = Outcome("DBViewMut.select_where_mut", m, TRUE, n)
        ELSE /\ muts' = [muts EXCEPT ![m] = Gone]
             /\ loans' = SetExcl(muts[m].origin, FALSE)
             /\ last' = Outcome("DBViewMut.select_where_mut", m, FALSE, 0)
  /\ UNCHANGED <<data, views>>

DBViewMut_len(m) ==
  /\ muts[m].state = "live"
  /\ last' = Outcome("DBViewMut.len", m, TRUE, Len(muts[m].entries))
  /\ UNCHANGED <<data, loans, views, muts>>

\* drop_DBViewMut, were the mutable borrow to outlast the DBViewMut.
drop_DBViewMutKeepsBorrow(m) ==
  /\ muts[m].state = "live"
  /\ muts' = [muts EXCEPT ![m] = Gone]
  /\ last' = Outcome("drop DBViewMut", m, TRUE, 0)
  /\ UNCHANGED <<data, views, loans>>

\* A DBViewMut goes out of scope: the mutable borrow of the DB ends.
drop_DBViewMut(m) ==
  /\ muts[m].state = "live"
  /\ muts' = [muts EXCEPT ![m] = Gone]
  /\ loans' = SetExcl(muts[m].origin, FALSE)
  /\ last' = Outcome("drop DBViewMut", m, TRUE, 0)
  /\ UNCHANGED <<data, views>>

Next ==
  \/ \E s \in Stores, p \in Preds : DB_select_where(s, p)
  \/ \E s \in Stores, p \in Preds : DB_select_where_mut(s, p)
  \/ \E s \in Stores : DB_as_view(s)
  \/ \E s \in Stores : DB_as_view_mut(s)
  \/ \E s \in Stores : DB_len(s)
  \/ \E v \in Live, p \in Preds : DBView_select_where(v, p)
  \/ \E v \in Live : DBView_len(v)
  \/ \E v \in Live : drop_DBView(v)
  \/ \E v \in Live, p \in Preds : filter_one(v, p)
  \/ \E a \in Live, b \in Live, p \in Preds : filter_two(a, b, p)
  \/ \E m \in MutIds, p \in Preds : DBViewMut_select_where_mut(m, p)
  \/ \E m \in MutIds : DBViewMut_len(m)
  \/ \E m \in MutIds : drop_DBViewMut(m)

Spec == Init /\ [][Next]_vars

\* ---- what the claims are stated with ----
Range(e) == {e[k] : k \in 1..Len(e)}

StrictlyIncreasing(e) == \A j, k \in 1..Len(e) : j < k => e[j] < e[k]

NoDuplicates(e) == \A j, k \in 1..Len(e) : j # k => e[j] # e[k]

\* The positions of the records of DB s that satisfy p.
SatPos(s, p) == {i \in 1..Len(data[s]) : p[data[s][i]] = "true"}

\* The references of entries whose record satisfies p, in the order of entries.
Satisfying(s, entries, p) == SelectSeq(entries, LAMBDA i : p[data[s][i]] = "true")

\* p panics on a record that entries refers to.
PanicsOn(s, entries, p) == \E k \in 1..Len(entries) : p[data[s][entries[k]]] = "panic"

\* |x| p(x) && q(x)
And(p, q) == [x \in Values |-> IF p[x] = "true" THEN q[x] ELSE "false"]

LiveMuts(s) == {m \in MutIds : muts[m].state = "live" /\ muts[m].origin = s}

\* The live DBViews that refer to record i of DB s.
ViewsOn(s, i) == {v \in Live : v.origin = s /\ i \in Range(v.entries)}

\* The exclusive references to record i of DB s that live DBViewMuts hold.
MutRefs(s, i) ==
  {mk \in MutIds \X (1..MaxLen) :
     /\ mk[1] \in LiveMuts(s)
     /\ mk[2] <= Len(muts[mk[1]].entries)
     /\ muts[mk[1]].entries[mk[2]] = i}

\* C1: DB.select_where(p) with a total p returns a DBView of exactly the
\* positions of the records satisfying p, in strictly increasing position
\* order, so that its length is the number of records satisfying p.
C1_SelectWhereExact ==
  [][last'.op = "DB.select_where" =>
       \A s \in {last'.recv}, p \in TotalPreds :
         DB_select_where(s, p) =>
           /\ last'.ok
           /\ last'.out.origin = s
           /\ StrictlyIncreasing(last'.out.entries)
           /\ Range(last'.out.entries) = SatPos(s, p)
           /\ Len(last'.out.entries) = Cardinality(SatPos(s, p))
           /\ views' = views (+) One(last'.out)]_vars

\* DB.select_where returned two of the records of a DB that holds the same
\* record twice.
C1_Witness ==
  /\ last.op = "DB.select_where"
  /\ last.ok
  /\ last.out \in Live
  /\ Len(last.out.entries) = 2
  /\ data[last.recv][1] = data[last.recv][2]

\* C2: every record is referenced by live DBViews only, or by exactly one
\* exclusive reference of one live DBViewMut and by no DBView.
C2_Exclusivity ==
  \A s \in Stores : \A i \in 1..Len(data[s]) :
    /\ Cardinality(MutRefs(s, i)) <= 1
    /\ MutRefs(s, i) # {} => ViewsOn(s, i) = {}

\* Two DBViews share a record of one DB while a DBViewMut narrowed from
\* another holds a record of the other DB.
C2_Witness ==
  \E s, t \in Stores :
    /\ s # t
    /\ \E i \in 1..Len(data[s]) :
         \E v \in ViewsOn(s, i) : ViewsOn(s, i) # {v} \/ CopiesIn(v, views) > 1
    /\ \E i \in 1..Len(data[t]) : MutRefs(t, i) # {}
    /\ last.op = "DBViewMut.select_where_mut"
    /\ last.ok

\* C3: while a DBViewMut of a DB is live, whatever it selected, no call on
\* that DB is enabled; DB.len is enabled exactly when no DBViewMut of the DB
\* is live.
C3_StoreLocked ==
  \A s \in Stores :
    /\ LiveMuts(s) # {} =>
         /\ \A p \in Preds : ~ENABLED DB_select_where(s, p)
         /\ \A p \in Preds : ~ENABLED DB_select_where_mut(s, p)
         /\ ~ENABLED DB_as_view(s)
         /\ ~ENABLED DB_as_view_mut(s)
         /\ ~ENABLED DB_len(s)
    /\ LiveMuts(s) = {} => ENABLED DB_len(s)

\* A DBViewMut that selected nothing, narrowed from one of a DB that has
\* records, is live, and there is room for another view.
C3_Witness ==
  /\ last.op = "DBViewMut.select_where_mut"
  /\ last.ok
  /\ muts[last.out].state = "live"
  /\ muts[last.out].entries = <<>>
  /\ data[muts[last.out].origin] # <<>>
  /\ Room(1)

\* C4: narrowing the result of v.select_where(p) by q, p and q total, yields
\* the references v.select_where(|x| p(x) && q(x)) yields, in the same order.
C4_NarrowingComposes ==
  [][\A q \in TotalPreds :
       (/\ last.op = "DBView.select_where"
        /\ last.ok
        /\ last'.op = "DBView.select_where"
        /\ DBView_select_where(last.out, q)) =>
         \A p \in TotalPreds :
           Narrow(last.recv, p).out = last.out.entries =>
             /\ last'.ok
             /\ last'.out.entries = Narrow(last.recv, And(p, q)).out
             /\ last'.out.entries = Satisfying(last.recv.origin, last.recv.entries, And(p, q))]_vars

\* The result of a DBView.select_where, two records, was narrowed again, to
\* one of them: the second predicate rejected a record the first accepted.
C4_Witness ==
  /\ last.op = "DBView.select_where"
  /\ last.ok
  /\ last.rel = "result"
  /\ Len(last.recv.entries) = 2
  /\ Len(last.out.entries) = 1

\* C5: DBView.select_where, filter_one and filter_two leave the views they
\* narrow as they were, and live, and leave the records of every DB as they
\* were; they only add their results to the live views.
C5_NarrowingKeepsReceiver ==
  [][last'.op \in Narrowings =>
       /\ data' = data
       /\ \A v \in Live : CopiesIn(v, views') >= CopiesIn(v, views)
       /\ BagCardinality(views') =
            BagCardinality(views)
              + (IF last'.ok THEN (IF last'.op = "filter_two" THEN 2 ELSE 1) ELSE 0)
       /\ IF last'.op = "filter_two"
          THEN {last'.recv[1], last'.recv[2]} \subseteq Live \cap BagToSet(views')
          ELSE last'.recv \in Live \cap BagToSet(views')]_vars

\* A view of two records was narrowed to a different view, and is still live.
C5_Witness ==
  /\ last.op = "DBView.select_where"
  /\ last.ok
  /\ Len(last.recv.entries) = 2
  /\ Len(last.out.entries) = 1
  /\ last.recv \in Live
  /\ last.out \in Live

\* C6: filter_two(a, b, p) with a total p returns the pair of a.select_where(p)
\* and b.select_where(p), in that order; the first refers to records of a's
\* DB only and the second to records of b's DB only.
C6_FilterTwoPair ==
  [][last'.op = "filter_two" =>
       \A a \in {last'.recv[1]}, b \in {last'.recv[2]}, p \in TotalPreds :
         filter_two(a, b, p) =>
           /\ last'.ok
           /\ last'.out[1] = DBView(a.origin, Narrow(a, p).out)
           /\ last'.out[2] = DBView(b.origin, Narrow(b, p).out)
           /\ last'.out[1].entries = Satisfying(a.origin, a.entries, p)
           /\ last'.out[2].entries = Satisfying(b.origin, b.entries, p)
           /\ Range(last'.out[1].entries) \subseteq 1..Len(data[a.origin])
           /\ Range(last'.out[2].entries) \subseteq 1..Len(data[b.origin])
           /\ views' = views (+) One(last'.out[1]) (+) One(last'.out[2])]_vars

\* filter_two narrowed views of two DBs, and the two results differ.
C6_Witness ==
  /\ last.op = "filter_two"
  /\ last.ok
  /\ last.recv[1].origin # last.recv[2].origin
  /\ Len(last.recv[1].entries) = 2
  /\ Len(last.out[1].entries) = 1
  /\ Len(last.out[2].entries) = 1
  /\ last.out[1] \in Live
  /\ last.out[2] \in Live

\* The calls on the DBViewMut handle m.
MutCallEnabled(m) ==
  \/ \E p \in Preds : ENABLED DBViewMut_select_where_mut(m, p)
  \/ ENABLED DBViewMut_len(m)
  \/ ENABLED drop_DBViewMut(m)

\* C7: DBViewMut.select_where_mut(p) consumes its receiver, on which no call
\* is enabled afterwards, and the DBViewMut it returns holds exactly the
\* receiver's references whose record satisfies p, in the receiver's order,
\* each once.
C7_MutNarrowConsumes ==
  /\ [][last'.op = "DBViewMut.select_where_mut" =>
          \A m \in {last'.recv}, p \in Preds :
            DBViewMut_select_where_mut(m, p) =>
              /\ muts'[m].state = "gone"
              /\ last'.ok =>
                   /\ last'.out # m
                   /\ muts'[last'.out] =
                        DBViewMut(muts[m].origin,
                                  Satisfying(muts[m].origin, muts[m].entries, p))
                   /\ Range(muts'[last'.out].entries) \subseteq Range(muts[m].entries)
                   /\ NoDuplicates(muts'[last'.out].entries)
                   /\ \A n \in MutIds \ {m, last'.out} : muts'[n] = muts[n]]_vars
  /\ [](\A m \in MutIds : muts[m].state = "gone" => ~MutCallEnabled(m))

\* A DBViewMut of two records was narrowed to one of them; the handle it was
\* bound to is gone.
C7_Witness ==
  /\ last.op = "DBViewMut.select_where_mut"
  /\ last.ok
  /\ muts[last.recv].state = "gone"
  /\ muts[last.out].state = "live"
  /\ Len(muts[last.out].entries) = 1
  /\ Len(data[muts[last.out].origin]) = 2

\* The borrow checker accepts every call on DB s.
Accessible(s) == CanBorrowShared(s) /\ CanBorrowMut(s)

\* C8 as stated: whenever a DBViewMut stops being live, by being consumed or
\* by being dropped, its DB is accessible again.
C8_AsStated ==
  [][\A m \in MutIds, s \in Stores :
       (muts[m].state = "live" /\ muts[m].origin = s /\ muts'[m].state = "gone") =>
         Accessible(s)']_vars

\* C8 as amended: when a DBViewMut is dropped, or select_where_mut on it
\* panics, its DB is accessible again; when select_where_mut consumes it and
\* returns, the references pass to the returned DBViewMut and the DB stays
\* inaccessible.
C8_ReleasedWhenDropped ==
  /\ [][\A m \in MutIds, s \in Stores :
          (muts[m].state = "live" /\ muts[m].origin = s /\ muts'[m].state = "gone") =>
            IF last'.op = "DBViewMut.select_where_mut" /\ last'.ok
            THEN /\ muts'[last'.out].state = "live"
                 /\ muts'[last'.out].origin = s
                 /\ ~CanBorrowShared(s)'
                 /\ ~CanBorrowMut(s)'
            ELSE Accessible(s)']_vars
  /\ [](\A s \in Stores :
          Accessible(s) =>
            /\ ENABLED DB_len(s)
            /\ \A p \in Preds : ENABLED DB_select_where_mut(s, p)
            /\ Room(1) => \A p \in Preds : ENABLED DB_select_where(s, p))

\* A DBViewMut was dropped and its DB, which has records, is accessible.
C8_Witness ==
  /\ last.op = "drop DBViewMut"
  /\ \E s \in Stores :
       /\ data[s] # <<>>
       /\ Accessible(s)
       /\ \A t \in Stores \ {s} : ~Accessible(t)

\* C9: when the predicate panics on a record during DB.select_where or
\* DBView.select_where, the call panics, returns no view, and leaves the
\* records, the live views and the borrows as they were.
C9_PanicLeavesSource ==
  [][/\ last'.op = "DB.select_where" =>
          \A s \in {last'.recv}, p \in Preds :
            (DB_select_where(s, p) /\ PanicsOn(s, Iter(data[s]), p)) =>
              /\ ~last'.ok
              /\ last'.out = 0
              /\ UNCHANGED <<data, views, loans, muts>>
     /\ last'.op = "DBView.select_where" =>
          \A v \in {last'.recv}, p \in Preds :
            (DBView_select_where(v, p) /\ PanicsOn(v.origin, v.entries, p)) =>
              /\ ~last'.ok
              /\ last'.out = 0
              /\ v \in BagToSet(views')
              /\ UNCHANGED <<data, views, loans, muts>>]_vars

\* DBView.select_where panicked on a view of two records that is still live.
C9_Witness ==
  /\ last.op = "DBView.select_where"
  /\ ~last.ok
  /\ Len(last.recv.entries) = 2
  /\ last.recv \in Live

\* C10: a view narrowed from a view borrows the DB, not the view: every live
\* DBView keeps its DB from being mutably borrowed, and when the view that
\* the last call narrowed is dropped the narrowed view stays live and still
\* keeps the DB from being mutably borrowed.
C10_NarrowedOutlivesSource ==
  /\ [](\A w \in Live :
          /\ ~CanBorrowMut(w.origin)
          /\ \A p \in Preds : ~ENABLED DB_select_where_mut(w.origin, p)
          /\ ~ENABLED DB_as_view_mut(w.origin))
  /\ [][last'.op = "drop DBView" =>
          \A v \in {last'.recv} :
            drop_DBView(v) =>
              /\ \A w \in NarrowedFrom(v), s \in Stores :
                   w.origin = s =>
                     /\ CopiesIn(w, views') >= (IF w = v THEN 1 ELSE CopiesIn(w, views))
                     /\ ~CanBorrowMut(s)'
              /\ \A w \in Live : w # v => CopiesIn(w, views') = CopiesIn(w, views)]_vars

\* The view that DBView.select_where narrowed was dropped, and the narrowed
\* view, the only view left, refers to a record.
C10_Witness ==
  /\ last.op = "drop DBView"
  /\ last.rel = "source"
  /\ BagCardinality(views) = 1
  /\ \E w \in Live : w.entries # <<>> /\ ~CanBorrowMut(w.origin)
====
